---- MODULE Spec2Model ----
(***************************************************************************)
(* shipctl native messaging host: supervision of one local development     *)
(* process per project.  Each request is served by a fresh host process    *)
(* (an "invocation"); the only continuity between invocations is the       *)
(* project's state file and log file under ~/.shipctl.                     *)
(*                                                                         *)
(* Modelled from src/_alternate-version/native-host/shipctl_host.py.  The  *)
(* handlers of src/native-host/serverless_llm_native_host.py and           *)
(* src/api-server/server.py repeat the same logic with `mode` in place of  *)
(* `command`.                                                              *)
(*                                                                         *)
(* Time inside one stop is counted in ticks of the poll interval (0.1 s).  *)
(***************************************************************************)
EXTENDS Integers, Sequences, FiniteSets, TLC

VARIABLES
    proc,       \* the OS process table: pid -> process
    stateFile,  \* ~/.shipctl/<project>.json: [exists, text]
    logFile,    \* ~/.shipctl/<project>.log: the sequence of its lines
    makeLog,    \* make-<target>.log of the native host: target -> lines
    inv,        \* the host invocations: locals, position, response
    last        \* history: the most recent start or stop that returned

vars == <<proc, stateFile, logFile, makeLog, inv, last>>

-----------------------------------------------------------------------------
(* Bounds of the model *)

MaxPid == 2         \* the OS hands out the pids 1..MaxPid
MaxLog == 9         \* lines the log file may hold
MaxClock == 2       \* int(time.time()) reads a value in 1..MaxClock
MaxOversleep == 1   \* a time.sleep(0.1) takes 1..1+MaxOversleep ticks
MaxMakeLog == 7     \* lines a make log may hold

(* Program constants, in ticks of 0.1 s and in lines *)

\* Mutant: a deadline of 0.3 s
Deadline_tenth == 30 \div 10

Deadline == 30      \* deadline = time.time() + 3.0
PollInterval == 1   \* time.sleep(0.1)
StartTail == 30     \* tail_file(log_file, max_lines=30)
LogsTail == 100     \* tail_file(log_file, max_lines=100)
MakeTail == 120     \* _tail_file(log_path, 120)

None == 0           \* Python's None where an integer is expected
NoneStr == "None"   \* Python's None where a string is expected

\* allowed_targets of _run_make_target, and their logs before the first run
allowed_targets == {"build-playground", "build-extension"}
NoMakeLog == [t \in allowed_targets |-> <<>>]

Pids == 1..MaxPid
Times == 1..MaxClock
\* start requests: <<message["command"], message.get("cwd")>>, cwd "" when absent
Requests == {<<"c1", "">>, <<"c2", "/w">>}
Hosts == {"a", "b"}         \* host processes; Spec runs them one at a time

-----------------------------------------------------------------------------
(* Operating system *)

\* A pid of the process table.  st, perm, ignTerm, dying: the process that has
\* the pid; leader: it leads the process group whose id is the pid (a child of
\* Popen(start_new_session=True) does); foreign: the pid was given to a process
\* no start has launched; kid: a descendant of the child, in the child's group:
\* "none", "run", "deaf" (it ignores SIGTERM) or "dying"
NoProc == [st |-> "none", perm |-> TRUE, ignTerm |-> FALSE, dying |-> FALSE,
           leader |-> TRUE, foreign |-> FALSE, kid |-> "none"]

\* errno of os.kill(pid, sig) / os.killpg(pid, sig) for a child that was
\* launched with start_new_session=True, so that pgid = pid
KillErrno(pt, pid) ==
    IF pt[pid].st = "none" THEN "ESRCH"
    ELSE IF ~pt[pid].perm THEN "EPERM"
    ELSE "ok"

\* the process table after signal sig was delivered to pid
Deliver(pt, pid, sig) ==
    IF sig = "SIGTERM" /\ pt[pid].ignTerm THEN pt
    ELSE [pt EXCEPT ![pid].dying = TRUE]

\* the process that has the pid is a member of the group whose id is the pid
Leads(pt, pid) == pt[pid].st = "run" /\ pt[pid].leader

\* errno of os.killpg(pid, sig): no such group; a group none of whose members
\* may be signalled; or at least one member was signalled
GroupErrno(pt, pid) ==
    IF ~Leads(pt, pid) /\ pt[pid].kid = "none" THEN "ESRCH"
    ELSE IF (Leads(pt, pid) /\ pt[pid].perm) \/ pt[pid].kid # "none" THEN "ok"
    ELSE "EPERM"

\* the process table after signal sig was delivered to the members of the group
DeliverGroup(pt, pid, sig) ==
    LET led == IF Leads(pt, pid) /\ pt[pid].perm THEN Deliver(pt, pid, sig) ELSE pt
    IN [led EXCEPT ![pid].kid = IF @ = "run" \/ (@ = "deaf" /\ sig = "SIGKILL")
                                THEN "dying" ELSE @]

os_killpg(pt, pid, sig) ==
    [errno |-> GroupErrno(pt, pid),
     pt |-> IF GroupErrno(pt, pid) = "ok" THEN DeliverGroup(pt, pid, sig) ELSE pt]

os_kill(pt, pid, sig) ==
    [errno |-> KillErrno(pt, pid),
     pt |-> IF KillErrno(pt, pid) = "ok" THEN Deliver(pt, pid, sig) ELSE pt]

\* Mutant: every OSError answer, "no such process" included, counts as alive
is_pid_alive_true(pt, pid) == TRUE

\* Mutant: the probe's success is read as death
is_pid_alive_false(pt, pid) == FALSE

\* os.kill(pid, 0): the zero signal, nothing is delivered
is_pid_alive(pt, pid) == KillErrno(pt, pid) = "ok"

-----------------------------------------------------------------------------
(* State store *)

Keys == <<"pid", "command", "cwd", "startedAt">>

EmptyState == [k \in {} |-> None]

RECURSIVE DumpPairs(_, _)
DumpPairs(state, n) ==
    IF n > Len(Keys) THEN <<>>
    ELSE (IF Keys[n] \in DOMAIN state THEN << <<Keys[n], state[Keys[n]]>> >> ELSE <<>>)
         \o DumpPairs(state, n + 1)

\* json.dumps(state, indent=2): the text as a sequence of tokens
json_dumps(state) == << <<"{">> >> \o DumpPairs(state, 1) \o << <<"}">> >>

IsPair(tok) == Len(tok) = 2

WellFormed(text) ==
    /\ Len(text) >= 2
    /\ text[1] = <<"{">>
    /\ text[Len(text)] = <<"}">>
    /\ \A n \in 2..(Len(text) - 1) : IsPair(text[n])

\* Mutant: the parser keeps only the first member of the object
json_loads_first(text) ==
    IF Len(text) = 2 THEN [k \in {} |-> None]
    ELSE [k \in {text[2][1]} |-> text[2][2]]

\* JSON texts that are well formed and denote no object: [] and null
ListText == << <<"[">>, <<"]">> >>
NullText == << <<"null">> >>

\* the Python values they denote; a dict is modelled by the function itself
PyList == [type |-> "list"]
PyNone == [type |-> "NoneType"]

\* json.loads(text) does not raise
Parses(text) == WellFormed(text) \/ text = ListText \/ text = NullText

\* json.loads(text) of a text that parses: the value it denotes
json_loads(text) ==
    IF text = ListText THEN PyList
    ELSE IF text = NullText THEN PyNone
    ELSE LET ks == {text[n][1] : n \in 2..(Len(text) - 1)}
         IN [k \in ks |-> text[CHOOSE n \in 2..(Len(text) - 1) : text[n][1] = k][2]]

NoFile == [exists |-> FALSE, text |-> <<>>]

read_state(f) ==
    IF ~f.exists THEN EmptyState
    ELSE IF Parses(f.text) THEN json_loads(f.text)
    ELSE EmptyState

write_state(state) == [exists |-> TRUE, text |-> json_dumps(state)]

\* the value has a method get: it is a dict
IsDict(state) == "type" \notin DOMAIN state

\* state.get(k)
Get(state, k) ==
    IF k \in DOMAIN state THEN state[k]
    ELSE IF k = "command" \/ k = "cwd" THEN NoneStr ELSE None

\* isinstance(pid, int)
IsInt(pid) == pid # None

-----------------------------------------------------------------------------
(* Log file *)

tail_file(lines, max_lines) ==
    IF Len(lines) <= max_lines THEN lines
    ELSE SubSeq(lines, Len(lines) - max_lines + 1, Len(lines))

\* the section header; the text of the time stamp is left out
Header(command, cwd) ==
    << <<"">>, <<"--- start">>, <<"command:", command>>,
       <<"cwd:", IF cwd # "" THEN cwd ELSE "default">> >>

-----------------------------------------------------------------------------
(* Host invocations *)

NoResp == [none |-> TRUE]

NoUrl == <<>>                  \* None or "" where a URL is expected
NoReply == [none |-> TRUE]     \* no GET was made

\* history only: what the OS answered to os.kill(pid, 0) for the recorded pid
Probe(pt, pid) == IF pid = None THEN "none" ELSE KillErrno(pt, pid)

Fresh == [op |-> "none", pc |-> "idle", pid |-> None, command |-> NoneStr,
          cwd |-> "", child |-> None, ok |-> TRUE, elapsed |-> 0,
          polled |-> "none", sigs |-> <<>>, path |-> "none", pre |-> NoFile,
          probe |-> "none", state |-> EmptyState, wrote |-> EmptyState,
          url |-> NoUrl, got |-> NoReply, make |-> "none",
          resp |-> NoResp]

NoLast == [op |-> "none", path |-> "none", child |-> None, resp |-> NoResp]

Summary(r) == [op |-> r.op, path |-> r.path, child |-> r.child, resp |-> r.resp]

\* the host process died of an uncaught exception: no response was written
Crashed(r, exc) == [r EXCEPT !.pc = "crashed", !.path = exc]

CanBegin(i) == inv[i].pc \in {"idle", "done", "crashed"}

Init ==
    /\ proc = [p \in Pids |-> NoProc]
    /\ stateFile = NoFile
    /\ logFile = <<>>
    /\ makeLog = NoMakeLog
    /\ inv = [i \in Hosts |-> Fresh]
    /\ last = NoLast

(* handle_start *)

\* Mutant: a start that finds the target running records the new request
StartCheck_rewrites(i, command, cwd) ==
    /\ CanBegin(i)
    /\ LET state == read_state(stateFile)
           pid == Get(state, "pid")
           alive == IsInt(pid) /\ is_pid_alive(proc, pid)
           begun == [Fresh EXCEPT !.op = "start", !.pid = pid, !.command = command,
                                  !.cwd = cwd, !.pre = stateFile,
                                  !.probe = Probe(proc, pid)]
       IN IF ~IsDict(state)
          THEN /\ inv' = [inv EXCEPT ![i] = Crashed([Fresh EXCEPT !.op = "start",
                                                      !.pre = stateFile], "AttributeError")]
               /\ last' = last
          ELSE IF alive
          THEN LET r == [begun EXCEPT !.pc = "done", !.path = "already",
                            !.resp = [ok |-> TRUE, status |-> "running", pid |-> pid]]
               IN /\ inv' = [inv EXCEPT ![i] = r]
                  /\ last' = Summary(r)
          ELSE /\ Len(logFile) + Len(Header(command, cwd)) <= MaxLog
               /\ inv' = [inv EXCEPT ![i] = [begun EXCEPT !.pc = "log"]]
               /\ last' = last
    /\ stateFile' = LET state == read_state(stateFile)
                        pid == Get(state, "pid")
                    IN IF IsDict(state) /\ IsInt(pid) /\ is_pid_alive(proc, pid)
                       THEN write_state([pid |-> pid, command |-> command,
                                         cwd |-> IF cwd # "" THEN cwd ELSE "~",
                                         startedAt |-> Get(state, "startedAt")])
                       ELSE stateFile
    /\ UNCHANGED <<makeLog, proc, logFile>>

\* read the state; return at once when the recorded pid is alive
StartCheck(i, command, cwd) ==
    /\ CanBegin(i)
    /\ LET state == read_state(stateFile)
           pid == Get(state, "pid")
           alive == IsInt(pid) /\ is_pid_alive(proc, pid)
           begun == [Fresh EXCEPT !.op = "start", !.pid = pid, !.command = command,
                                  !.cwd = cwd, !.pre = stateFile,
                                  !.probe = Probe(proc, pid)]
       IN IF ~IsDict(state)
          THEN /\ inv' = [inv EXCEPT ![i] = Crashed([Fresh EXCEPT !.op = "start",
                                                      !.pre = stateFile], "AttributeError")]
               /\ last' = last
          ELSE IF alive
          THEN LET r == [begun EXCEPT !.pc = "done", !.path = "already",
                            !.resp = [ok |-> TRUE, status |-> "running", pid |-> pid]]
               IN /\ inv' = [inv EXCEPT ![i] = r]
                  /\ last' = Summary(r)
          ELSE /\ Len(logFile) + Len(Header(command, cwd)) <= MaxLog
               /\ inv' = [inv EXCEPT ![i] = [begun EXCEPT !.pc = "log"]]
               /\ last' = last
    /\ UNCHANGED <<makeLog, proc, stateFile, logFile>>

\* Mutant: the log is opened with "w"
StartLog_w(i) ==
    /\ inv[i].pc = "log"
    /\ logFile' = Header(inv[i].command, inv[i].cwd)
    /\ inv' = [inv EXCEPT ![i].pc = "spawn"]
    /\ UNCHANGED <<makeLog, proc, stateFile, last>>

\* open the log for append and write the section header
StartLog(i) ==
    /\ inv[i].pc = "log"
    /\ logFile' = logFile \o Header(inv[i].command, inv[i].cwd)
    /\ inv' = [inv EXCEPT ![i].pc = "spawn"]
    /\ UNCHANGED <<makeLog, proc, stateFile, last>>

\* Mutant: the record is saved before Popen is known to have worked
SpawnFails_saved(i) ==
    /\ inv[i].pc = "spawn"
    /\ stateFile' = [exists |-> TRUE,
                     text |-> << <<"{">>, <<"command", inv[i].command>>, <<"}">> >>]
    /\ LET r == [inv[i] EXCEPT !.pc = "done", !.path = "spawnfail",
                    !.resp = [ok |-> FALSE, error |-> "Failed to start"]]
       IN /\ inv' = [inv EXCEPT ![i] = r]
          /\ last' = [op |-> r.op, path |-> r.path, child |-> r.child, resp |-> r.resp]
    /\ UNCHANGED <<makeLog, proc, logFile>>

\* subprocess.Popen(...) raises: the failure is returned
SpawnFails(i) ==
    /\ inv[i].pc = "spawn"
    /\ LET r == [inv[i] EXCEPT !.pc = "done", !.path = "spawnfail",
                    !.resp = [ok |-> FALSE, error |-> "Failed to start"]]
       IN /\ inv' = [inv EXCEPT ![i] = r]
          /\ last' = Summary(r)
    /\ UNCHANGED <<makeLog, proc, stateFile, logFile>>

\* subprocess.Popen(..., start_new_session=True): a child runs under a free pid
SpawnRuns(i) ==
    /\ inv[i].pc = "spawn"
    /\ \E p \in Pids, ign \in BOOLEAN :
          /\ proc[p].st = "none"
          /\ proc[p].kid = "none"
          /\ proc' = [proc EXCEPT ![p] = [NoProc EXCEPT !.st = "run", !.ignTerm = ign]]
          /\ inv' = [inv EXCEPT ![i].pc = "grace", ![i].child = p]
    /\ UNCHANGED <<makeLog, stateFile, logFile, last>>

\* Mutant: the exit of the child goes unnoticed
Exited_never(pt, child) == FALSE

\* proc.poll() is not None
Exited(pt, child) == pt[child].st = "none"

\* after time.sleep(0.5): proc.poll()
StartGrace(i) ==
    /\ inv[i].pc = "grace"
    /\ IF Exited(proc, inv[i].child)
       THEN LET r == [inv[i] EXCEPT !.pc = "done", !.path = "exit",
                        !.resp = [ok |-> FALSE, error |-> "Process exited immediately",
                                  logTail |-> tail_file(logFile, StartTail)]]
            IN /\ inv' = [inv EXCEPT ![i] = r]
               /\ last' = Summary(r)
       ELSE /\ inv' = [inv EXCEPT ![i].pc = "save"]
            /\ last' = last
    /\ UNCHANGED <<makeLog, proc, stateFile, logFile>>

\* work_dir = cwd if cwd else str(Path.home())
WorkDir(cwd) == IF cwd # "" THEN cwd ELSE "~"

\* write_state(project_id, {pid, command, cwd, startedAt})
StartSave(i, now) ==
    /\ inv[i].pc = "save"
    /\ stateFile' = write_state(
            [pid |-> inv[i].child, command |-> inv[i].command,
             cwd |-> WorkDir(inv[i].cwd),
             startedAt |-> now])
    /\ LET r == [inv[i] EXCEPT !.pc = "done", !.path = "started",
                    !.resp = [ok |-> TRUE, status |-> "running", pid |-> inv[i].child]]
       IN /\ inv' = [inv EXCEPT ![i] = r]
          /\ last' = Summary(r)
    /\ UNCHANGED <<makeLog, proc, logFile>>

(* handle_stop, stop_process *)

\* read the state; nothing to do without a pid, clear a dead one
StopCheck(i) ==
    /\ CanBegin(i)
    /\ LET state == read_state(stateFile)
           pid == Get(state, "pid")
           begun == [Fresh EXCEPT !.op = "stop", !.pid = pid, !.pre = stateFile,
                                  !.probe = Probe(proc, pid)]
       IN IF ~IsDict(state)
          THEN /\ inv' = [inv EXCEPT ![i] = Crashed([Fresh EXCEPT !.op = "stop",
                                                      !.pre = stateFile], "AttributeError")]
               /\ last' = last
          ELSE IF ~IsInt(pid)
          THEN LET r == [begun EXCEPT !.pc = "done", !.path = "nopid",
                            !.resp = [ok |-> TRUE, status |-> "stopped"]]
               IN /\ inv' = [inv EXCEPT ![i] = r]
                  /\ last' = Summary(r)
          ELSE IF ~is_pid_alive(proc, pid)
          THEN /\ inv' = [inv EXCEPT ![i] = [begun EXCEPT !.pc = "clear", !.path = "dead"]]
               /\ last' = last
          ELSE /\ inv' = [inv EXCEPT ![i] = [begun EXCEPT !.pc = "term", !.path = "signalled"]]
               /\ last' = last
    /\ UNCHANGED <<makeLog, proc, stateFile, logFile>>

\* Mutant: the single pid first, the group only if that fails
SignalPhase_pidfirst(pt, pid, sig) ==
    LET g == os_killpg(pt, pid, sig)
        k == os_kill(pt, pid, sig)
    IN IF k.errno = "ok"
       THEN [ok |-> TRUE, pt |-> k.pt, sigs |-> << <<"kill", sig, k.errno>> >>]
       ELSE [ok |-> g.errno = "ok", pt |-> g.pt,
             sigs |-> << <<"kill", sig, k.errno>>, <<"killpg", sig, g.errno>> >>]

\* the signal phase of stop_process: the group first, then the single pid.
\* [ok, pt, sigs]: whether a call succeeded, the process table, the calls made
SignalPhase(pt, pid, sig) ==
    LET g == os_killpg(pt, pid, sig)
        k == os_kill(pt, pid, sig)
    IN IF g.errno = "ok"
       THEN [ok |-> TRUE, pt |-> g.pt, sigs |-> << <<"killpg", sig, g.errno>> >>]
       ELSE [ok |-> k.errno = "ok", pt |-> k.pt,
             sigs |-> << <<"killpg", sig, g.errno>>, <<"kill", sig, k.errno>> >>]

\* terminate; on success set the deadline, else return False
StopTerm(i) ==
    /\ inv[i].pc = "term"
    /\ LET ph == SignalPhase(proc, inv[i].pid, "SIGTERM")
       IN /\ proc' = ph.pt
          /\ inv' = [inv EXCEPT ![i].sigs = @ \o ph.sigs,
                                ![i].ok = ph.ok,
                                ![i].elapsed = 0,
                                ![i].pc = IF ph.ok THEN "poll" ELSE "clear"]
    /\ UNCHANGED <<makeLog, stateFile, logFile, last>>

\* Mutant: the loop has no deadline
DeadlinePassed_never(elapsed) == FALSE

\* Mutant: the loop condition never holds
DeadlinePassed_always(elapsed) == TRUE

\* not (time.time() < deadline)
DeadlinePassed(elapsed) == ~(elapsed < Deadline)

\* one round of the loop: time.time() < deadline, probe, sleep
StopPoll(i) ==
    /\ inv[i].pc = "poll"
    /\ ~DeadlinePassed(inv[i].elapsed)
    /\ IF ~is_pid_alive(proc, inv[i].pid)
       THEN inv' = [inv EXCEPT ![i].polled = "dead", ![i].ok = TRUE, ![i].pc = "clear"]
       ELSE \E d \in PollInterval..(PollInterval + MaxOversleep) :
                inv' = [inv EXCEPT ![i].polled = "alive", ![i].elapsed = @ + d]
    /\ UNCHANGED <<makeLog, proc, stateFile, logFile, last>>

\* the deadline has passed: kill
StopKill(i) ==
    /\ inv[i].pc = "poll"
    /\ DeadlinePassed(inv[i].elapsed)
    /\ LET ph == SignalPhase(proc, inv[i].pid, "SIGKILL")
       IN /\ proc' = ph.pt
          /\ inv' = [inv EXCEPT ![i].sigs = @ \o ph.sigs,
                                ![i].ok = ph.ok,
                                ![i].pc = "clear"]
    /\ UNCHANGED <<makeLog, stateFile, logFile, last>>

\* Mutant: stop writes back the record it read
ClearedState_kept == read_state(stateFile)

\* the record stop writes: {}
ClearedState == EmptyState

\* Mutant: the result of stop_process is dropped
stop_response_stopped(path, ok, pid) ==
    IF path = "dead"
    THEN [ok |-> TRUE, status |-> "stopped"]
    ELSE [ok |-> TRUE, status |-> "stopped", pid |-> pid]

\* the response of a stop that wrote the state
stop_response(path, ok, pid) ==
    IF path = "dead"
    THEN [ok |-> TRUE, status |-> "stopped"]
    ELSE [ok |-> ok, status |-> IF ok THEN "stopped" ELSE "error", pid |-> pid]

\* Mutant: the record is cleared only after a successful stop_process
StopClear_ifok(i) ==
    /\ inv[i].pc = "clear"
    /\ stateFile' = IF inv[i].ok THEN [exists |-> TRUE, text |-> << <<"{">>, <<"}">> >>]
                    ELSE stateFile
    /\ LET r == [inv[i] EXCEPT !.pc = "done",
                    !.resp = IF inv[i].path = "dead"
                             THEN [ok |-> TRUE, status |-> "stopped"]
                             ELSE [ok |-> inv[i].ok,
                                   status |-> IF inv[i].ok THEN "stopped" ELSE "error",
                                   pid |-> inv[i].pid]]
       IN /\ inv' = [inv EXCEPT ![i] = r]
          /\ last' = [op |-> r.op, path |-> r.path, child |-> r.child, resp |-> r.resp]
    /\ UNCHANGED <<makeLog, proc, logFile>>

\* write_state(project_id, {}) and the response
StopClear(i) ==
    /\ inv[i].pc = "clear"
    /\ stateFile' = write_state(ClearedState)
    /\ LET r == [inv[i] EXCEPT !.pc = "done",
                    !.resp = stop_response(inv[i].path, inv[i].ok, inv[i].pid)]
       IN /\ inv' = [inv EXCEPT ![i] = r]
          /\ last' = Summary(r)
    /\ UNCHANGED <<makeLog, proc, logFile>>

(* handle_status, handle_logs *)

handle_status(f, pt) ==
    LET state == read_state(f)
        pid == Get(state, "pid")
        alive == IsInt(pid) /\ is_pid_alive(pt, pid)
    IN [ok |-> TRUE,
        status |-> IF alive THEN "running" ELSE "stopped",
        pid |-> IF alive THEN pid ELSE None,
        command |-> Get(state, "command"),
        startedAt |-> Get(state, "startedAt")]

\* Mutant: a status that finds the recorded pid dead clears the record
Status_clearing(i) ==
    /\ CanBegin(i)
    /\ IsDict(read_state(stateFile))
    /\ inv' = [inv EXCEPT ![i] = [Fresh EXCEPT !.op = "status", !.pc = "done",
                  !.pid = Get(read_state(stateFile), "pid"),
                  !.probe = Probe(proc, Get(read_state(stateFile), "pid")),
                  !.pre = stateFile, !.resp = handle_status(stateFile, proc)]]
    /\ stateFile' = IF Probe(proc, Get(read_state(stateFile), "pid")) = "ESRCH"
                    THEN [exists |-> TRUE, text |-> << <<"{">>, <<"}">> >>]
                    ELSE stateFile
    /\ UNCHANGED <<makeLog, proc, logFile, last>>

Status(i) ==
    /\ CanBegin(i)
    /\ inv' = [inv EXCEPT ![i] =
                  IF ~IsDict(read_state(stateFile))
                  THEN Crashed([Fresh EXCEPT !.op = "status", !.pre = stateFile],
                               "AttributeError")
                  ELSE [Fresh EXCEPT !.op = "status", !.pc = "done",
                           !.pid = Get(read_state(stateFile), "pid"),
                           !.probe = Probe(proc, Get(read_state(stateFile), "pid")),
                           !.pre = stateFile, !.resp = handle_status(stateFile, proc)]]
    /\ UNCHANGED <<makeLog, proc, stateFile, logFile, last>>

handle_logs(lines) == [ok |-> TRUE, logTail |-> tail_file(lines, LogsTail)]

Logs(i) ==
    /\ CanBegin(i)
    /\ inv' = [inv EXCEPT ![i] = [Fresh EXCEPT !.op = "logs", !.pc = "done",
                  !.pre = stateFile, !.resp = handle_logs(logFile)]]
    /\ UNCHANGED <<makeLog, proc, stateFile, logFile, last>>

(* _status and _health_check of src/native-host/serverless_llm_native_host.py,
   whose state record holds `mode` where this one holds `command`.  A string
   that is taken apart is a sequence of characters. *)

\* message.get("chatApiBaseUrl"): absent or "", " ", "/", " h/ "
Urls == {NoUrl, <<" ">>, <<"/">>, <<" ", "h", "/", " ">>}

\* what the server at the health URL does with the GET
Replies == {[status |-> 200], [status |-> 503], [error |-> "refused"]}

RECURSIVE lstrip(_, _)
lstrip(str, chars) ==
    IF str # <<>> /\ str[1] \in chars THEN lstrip(Tail(str), chars) ELSE str

RECURSIVE rstrip(_, _)
rstrip(str, chars) ==
    IF str # <<>> /\ str[Len(str)] \in chars
    THEN rstrip(SubSeq(str, 1, Len(str) - 1), chars)
    ELSE str

\* str.strip()
strip(str) == rstrip(lstrip(str, {" "}), {" "})

\* urllib.request.urlopen: a reply outside 200..299 is raised as HTTPError
urlopen(reply) ==
    IF "error" \in DOMAIN reply THEN [raised |-> TRUE, status |-> None]
    ELSE IF 200 <= reply.status /\ reply.status < 300
    THEN [raised |-> FALSE, status |-> reply.status]
    ELSE [raised |-> TRUE, status |-> reply.status]

_health_check(reply) ==
    LET resp == urlopen(reply)
    IN IF resp.raised THEN FALSE ELSE 200 <= resp.status /\ resp.status < 300

\* a Python bool in a field that may also hold None
PyBool(b) == IF b THEN "True" ELSE "False"

\* base is non-empty: the GET is made
Probes(chat_base_url) ==
    chat_base_url # NoUrl /\ rstrip(strip(chat_base_url), {"/"}) # <<>>

\* the replies that matter to a request: one will do when no GET is made
RepliesTo(chat_base_url) ==
    IF Probes(chat_base_url) THEN Replies ELSE {[status |-> 200]}

\* Mutant: a backend that is not healthy is reported as stopped
_status_unhealthy_stopped(f, pt, chat_base_url, reply) ==
    LET state == read_state(f)
        pid == Get(state, "pid")
        down == Probes(chat_base_url) /\ ~_health_check(reply)
        alive == IsInt(pid) /\ is_pid_alive(pt, pid) /\ ~down
    IN [ok |-> TRUE,
        status |-> IF alive THEN "running" ELSE "stopped",
        pid |-> IF alive THEN pid ELSE None,
        healthUrl |-> IF Probes(chat_base_url)
                      THEN rstrip(strip(chat_base_url), {"/"}) \o <<"/health">>
                      ELSE NoUrl,
        healthy |-> IF Probes(chat_base_url) THEN PyBool(~down) ELSE NoneStr,
        mode |-> Get(state, "command"),
        startedAt |-> Get(state, "startedAt")]

_status(f, pt, chat_base_url, reply) ==
    LET state == read_state(f)
        pid == Get(state, "pid")
        alive == IsInt(pid) /\ is_pid_alive(pt, pid)
        base == rstrip(strip(chat_base_url), {"/"})
        probes == chat_base_url # NoUrl /\ base # <<>>
        health_url == IF probes THEN base \o <<"/health">> ELSE NoUrl
        healthy == IF probes THEN PyBool(_health_check(reply)) ELSE NoneStr
    IN [ok |-> TRUE,
        status |-> IF alive THEN "running" ELSE "stopped",
        pid |-> IF alive THEN pid ELSE None,
        healthUrl |-> health_url,
        healthy |-> healthy,
        mode |-> Get(state, "command"),
        startedAt |-> Get(state, "startedAt")]

\* main: action == "status"
StatusHealth(i, chat_base_url, reply) ==
    /\ CanBegin(i)
    /\ LET state == read_state(stateFile)
           resp == _status(stateFile, proc, chat_base_url, reply)
       IN inv' = [inv EXCEPT ![i] =
                  IF ~IsDict(state)
                  THEN Crashed([Fresh EXCEPT !.op = "status", !.pre = stateFile],
                               "AttributeError")
                  ELSE [Fresh EXCEPT !.op = "status", !.pc = "done",
                           !.pid = Get(state, "pid"),
                           !.probe = Probe(proc, Get(state, "pid")),
                           !.pre = stateFile, !.url = chat_base_url,
                           !.got = IF resp.healthUrl # NoUrl THEN reply ELSE NoReply,
                           !.resp = resp]]
    /\ UNCHANGED <<makeLog, proc, stateFile, logFile, last>>

(* main of src/native-host/serverless_llm_native_host.py: what it checks
   before _start_backend, whose steps are those of handle_start with the
   mode as the command *)

Modes == {"dev-chat", "dev-interface-local"}

\* message.get("mode"): absent, the two modes, another word
ModeInputs == {NoneStr, "dev-chat", "dev-interface-local", "prod"}

Actions == {"start", "stop", "status", "logs", "make"}

\* the response of a request that is refused
Refused(i, action, mode, why, error) ==
    LET r == [Fresh EXCEPT !.op = action, !.pc = "done", !.path = why,
                           !.command = mode,
                           !.pre = stateFile,
                           !.resp = [ok |-> FALSE, error |-> error]]
    IN /\ inv' = [inv EXCEPT ![i] = r]
       /\ last' = IF action \in {"start", "stop"} THEN Summary(r) ELSE last
       /\ UNCHANGED <<proc, stateFile, logFile, makeLog>>

\* _find_repo_root raises: no Makefile is found at any of the places it tries
ConfigInvalid(i, action) ==
    /\ CanBegin(i)
    /\ Refused(i, action, NoneStr, "config", "Could not locate repo root")

\* Mutant: the mode is not checked
StartMode_unchecked(i, m) ==
    StartCheck(i, IF m = NoneStr THEN "dev-chat" ELSE m, "")

\* action == "start": mode = message.get("mode") or "dev-chat"
StartMode(i, m) ==
    LET mode == IF m = NoneStr THEN "dev-chat" ELSE m
    IN IF mode \notin Modes
       THEN /\ CanBegin(i)
            /\ Refused(i, "start", mode, "mode", "Unknown mode")
       ELSE StartCheck(i, mode, "")

(* action == "make" of main and _run_make_target.  An invocation's `make`
   is the make command it ran: "none", "running" or "exited". *)

\* message.get("target") after strip(): absent, blank, the two allowed targets,
\* another target of the Makefile
Targets == {NoneStr, "", "build-playground", "build-extension", "clean"}

\* proc.returncode
ExitCodes == {0, 2}

\* the section header; the text of the time stamp is left out
MakeHeader(target, working_dir) ==
    << <<"">>, <<"--- make", target>>, <<"Working directory:", working_dir>> >>

\* ext_ok: _find_extension_dir finds the extension directory
MakeBegin(i, target, ext_ok) ==
    /\ CanBegin(i)
    /\ IF target \in {NoneStr, ""}
       THEN Refused(i, "make", target, "no-target", "Missing make target")
       ELSE IF target = "build-extension" /\ ~ext_ok
       THEN Refused(i, "make", target, "no-extension-dir",
                    "Extension directory not configured")
       ELSE IF target \notin allowed_targets
       THEN Refused(i, "make", target, "unsupported", "Unsupported make target")
       ELSE /\ Len(makeLog[target]) + 3 <= MaxMakeLog
            /\ makeLog' = [makeLog EXCEPT ![target] =
                   @ \o MakeHeader(target, IF target = "build-extension"
                                           THEN "extension" ELSE "repo")]
            /\ inv' = [inv EXCEPT ![i] = [Fresh EXCEPT !.op = "make", !.pc = "npm",
                          !.command = target, !.pre = stateFile]]
            /\ UNCHANGED <<proc, stateFile, logFile, last>>

\* which("npm") is None
MakeNpmMissing(i) ==
    LET target == inv[i].command
        log == makeLog[target] \o << <<"npm not found in PATH">>, <<"PATH=">> >>
    IN /\ inv[i].op = "make" /\ inv[i].pc = "npm"
       /\ Len(log) <= MaxMakeLog
       /\ makeLog' = [makeLog EXCEPT ![target] = log]
       /\ inv' = [inv EXCEPT ![i].pc = "done", ![i].path = "npm-missing",
                     ![i].resp = [ok |-> FALSE, error |-> "npm not found in PATH",
                                  logTail |-> tail_file(log, MakeTail)]]
       /\ UNCHANGED <<proc, stateFile, logFile, last>>

MakeNpmFound(i) ==
    LET target == inv[i].command
    IN /\ inv[i].op = "make" /\ inv[i].pc = "npm"
       /\ Len(makeLog[target]) < MaxMakeLog
       /\ makeLog' = [makeLog EXCEPT ![target] = Append(@, <<"Using npm at:">>)]
       /\ inv' = [inv EXCEPT ![i].pc = "run"]
       /\ UNCHANGED <<proc, stateFile, logFile, last>>

\* subprocess.run raises: make itself cannot be executed
MakeRaises(i) ==
    /\ inv[i].op = "make" /\ inv[i].pc = "run"
    /\ inv' = [inv EXCEPT ![i].pc = "done", ![i].path = "run-failed",
                  ![i].resp = [ok |-> FALSE, error |-> "Failed to run make",
                               logTail |-> tail_file(makeLog[inv[i].command], MakeTail)]]
    /\ UNCHANGED <<makeLog, proc, stateFile, logFile, last>>

\* subprocess.run has launched make and waits for it
MakeSpawns(i) ==
    /\ inv[i].op = "make" /\ inv[i].pc = "run"
    /\ inv' = [inv EXCEPT ![i].pc = "wait", ![i].make = "running"]
    /\ UNCHANGED <<makeLog, proc, stateFile, logFile, last>>

\* make writes a line to its stdout or stderr, which are the log
MakeWrites(i) ==
    LET target == inv[i].command
    IN /\ inv[i].op = "make" /\ inv[i].pc = "wait"
       /\ Len(makeLog[target]) < MaxMakeLog
       /\ makeLog' = [makeLog EXCEPT ![target] = Append(@, <<"make-out">>)]
       /\ UNCHANGED <<proc, stateFile, logFile, inv, last>>

\* Mutant: a failed build is reported like a failure to run it
MakeExits_error(i, returncode) ==
    /\ inv[i].op = "make" /\ inv[i].pc = "wait"
    /\ inv' = [inv EXCEPT ![i].pc = "done", ![i].path = "exit", ![i].make = "exited",
                  ![i].resp = IF returncode = 0
                              THEN [ok |-> TRUE, status |-> "success",
                                    exitCode |-> returncode,
                                    logTail |-> tail_file(makeLog[inv[i].command], MakeTail)]
                              ELSE [ok |-> FALSE, error |-> "make failed",
                                    logTail |-> tail_file(makeLog[inv[i].command], MakeTail)]]
    /\ UNCHANGED <<makeLog, proc, stateFile, logFile, last>>

\* make ends and subprocess.run returns
MakeExits(i, returncode) ==
    /\ inv[i].op = "make" /\ inv[i].pc = "wait"
    /\ inv' = [inv EXCEPT ![i].pc = "done", ![i].path = "exit", ![i].make = "exited",
                  ![i].resp = [ok |-> returncode = 0,
                               status |-> IF returncode = 0 THEN "success" ELSE "error",
                               exitCode |-> returncode,
                               logTail |-> tail_file(makeLog[inv[i].command], MakeTail)]]
    /\ UNCHANGED <<makeLog, proc, stateFile, logFile, last>>

Make(i) ==
    \/ \E target \in Targets, ext_ok \in BOOLEAN : MakeBegin(i, target, ext_ok)
    \/ MakeNpmMissing(i)
    \/ MakeNpmFound(i)
    \/ MakeRaises(i)
    \/ MakeSpawns(i)
    \/ MakeWrites(i)
    \/ \E returncode \in ExitCodes : MakeExits(i, returncode)

(* write_state as the two system calls Path.write_text makes of it: open(path,
   "w") leaves the file empty, then the text is written.  A host that serves
   requests one at a time cannot tell the two apart from the single step of
   StartSave and StopClear; a host that runs beside it can. *)

Truncated == [exists |-> TRUE, text |-> <<>>]

StartTruncate(i) ==
    /\ inv[i].pc = "save"
    /\ stateFile' = Truncated
    /\ inv' = [inv EXCEPT ![i].pc = "write"]
    /\ UNCHANGED <<makeLog, proc, logFile, last>>

StartWrite(i, now) ==
    /\ inv[i].pc = "write"
    /\ stateFile' = write_state(
            [pid |-> inv[i].child, command |-> inv[i].command,
             cwd |-> WorkDir(inv[i].cwd),
             startedAt |-> now])
    /\ LET r == [inv[i] EXCEPT !.pc = "done", !.path = "started",
                    !.resp = [ok |-> TRUE, status |-> "running", pid |-> inv[i].child]]
       IN /\ inv' = [inv EXCEPT ![i] = r]
          /\ last' = Summary(r)
    /\ UNCHANGED <<makeLog, proc, logFile>>

StopTruncate(i) ==
    /\ inv[i].pc = "clear"
    /\ stateFile' = Truncated
    /\ inv' = [inv EXCEPT ![i].pc = "wipe"]
    /\ UNCHANGED <<makeLog, proc, logFile, last>>

StopWrite(i) ==
    /\ inv[i].pc = "wipe"
    /\ stateFile' = write_state(ClearedState)
    /\ LET r == [inv[i] EXCEPT !.pc = "done",
                    !.resp = stop_response(inv[i].path, inv[i].ok, inv[i].pid)]
       IN /\ inv' = [inv EXCEPT ![i] = r]
          /\ last' = Summary(r)
    /\ UNCHANGED <<makeLog, proc, logFile>>

(* read_state, write_state on their own *)

\* a record with any of the four fields; None / NoneStr stand for "absent"
Rec(pid, command, cwd, startedAt) ==
    [k \in {"pid" : x \in {pid} \ {None}} \cup {"command" : x \in {command} \ {NoneStr}}
           \cup {"cwd" : x \in {cwd} \ {NoneStr}}
           \cup {"startedAt" : x \in {startedAt} \ {None}} |->
        CASE k = "pid" -> pid
          [] k = "command" -> command
          [] k = "cwd" -> cwd
          [] k = "startedAt" -> startedAt]

Records ==
    {Rec(p, c, w, t) : p \in {None} \cup Pids, c \in {NoneStr, "c1", "c2"},
                       w \in {NoneStr, "~", "/w"}, t \in {None} \cup Times}

\* write_state(project_id, state)
WriteState(i) ==
    /\ inv[i].op = "store" /\ inv[i].pc = "idle"
    /\ stateFile' = write_state(inv[i].state)
    /\ inv' = [inv EXCEPT ![i].pc = "written", ![i].wrote = inv[i].state,
                          ![i].state = EmptyState, ![i].pre = stateFile]
    /\ UNCHANGED <<makeLog, proc, logFile, last>>

\* state = read_state(project_id)
ReadState(i) ==
    /\ inv[i].op = "store" /\ inv[i].pc = "written"
    /\ inv' = [inv EXCEPT ![i].pc = "done", ![i].state = read_state(stateFile)]
    /\ UNCHANGED <<makeLog, proc, stateFile, logFile, last>>

-----------------------------------------------------------------------------
(* Environment *)

\* a process exits: on its own, or because a signal told it to
ChildExits(p) ==
    /\ proc[p].st = "run"
    /\ proc' = [proc EXCEPT ![p] = [NoProc EXCEPT !.kid = proc[p].kid]]
    /\ UNCHANGED <<makeLog, stateFile, logFile, inv, last>>

\* a child forks a descendant, which stays in the child's process group
Forks(p, deaf) ==
    /\ proc[p].st = "run" /\ ~proc[p].foreign /\ proc[p].leader
    /\ proc[p].kid = "none"
    /\ proc' = [proc EXCEPT ![p].kid = IF deaf THEN "deaf" ELSE "run"]
    /\ UNCHANGED <<makeLog, stateFile, logFile, inv, last>>

\* the descendant exits: on its own, or because a signal told it to
KidExits(p) ==
    /\ proc[p].kid # "none"
    /\ proc' = [proc EXCEPT ![p].kid = "none"]
    /\ UNCHANGED <<makeLog, stateFile, logFile, inv, last>>

\* the OS gives a free pid to a process that no start has launched; it may
\* lead a group of its own pid or belong to another group, and may be another
\* user's
ForeignSpawns(p, leader, perm) ==
    /\ proc[p].st = "none" /\ proc[p].kid = "none"
    /\ proc' = [proc EXCEPT ![p] = [NoProc EXCEPT !.st = "run", !.foreign = TRUE,
                                        !.leader = leader, !.perm = perm]]
    /\ UNCHANGED <<makeLog, stateFile, logFile, inv, last>>

\* a child prints a line to its stdout/stderr, which is the log file
ChildWrites(p) ==
    /\ proc[p].st = "run"
    /\ Len(logFile) < MaxLog
    /\ logFile' = Append(logFile, <<"out", p>>)
    /\ UNCHANGED <<makeLog, proc, stateFile, inv, last>>

\* open(log_file, "a") or the write of the header raises OSError (the log is
\* not writable, the disk is full): nothing in handle_start or main catches it
StartLogFails(i) ==
    /\ inv[i].pc = "log"
    /\ inv' = [inv EXCEPT ![i] = Crashed(inv[i], "OSError")]
    /\ UNCHANGED <<makeLog, proc, stateFile, logFile, last>>

\* write_state raises OSError in handle_start: the child runs, unrecorded
StartSaveFails(i) ==
    /\ inv[i].pc = "save"
    /\ inv' = [inv EXCEPT ![i] = Crashed(inv[i], "OSError")]
    /\ UNCHANGED <<makeLog, proc, stateFile, logFile, last>>

\* write_state raises OSError in handle_stop
StopClearFails(i) ==
    /\ inv[i].pc = "clear"
    /\ inv' = [inv EXCEPT ![i] = Crashed(inv[i], "OSError")]
    /\ UNCHANGED <<makeLog, proc, stateFile, logFile, last>>

\* contents of a state file that are no well-formed record: an empty file, a
\* truncated object, and JSON that is no object
CorruptTexts == {<<>>, << <<"{">>, <<"pid", 1>> >>, ListText, NullText}

\* a running child changes its credentials (it execs a set-uid program, or
\* drops to another user): the host's user may no longer signal it
ChangeCreds(p) ==
    /\ proc[p].st = "run"
    /\ proc[p].perm
    /\ proc' = [proc EXCEPT ![p].perm = FALSE]
    /\ UNCHANGED <<makeLog, stateFile, logFile, inv, last>>

-----------------------------------------------------------------------------
(* Specification: the host serves one request at a time *)

Host(i) ==
    \/ \E rq \in Requests : StartCheck(i, rq[1], rq[2])
    \/ StartLog(i)
    \/ SpawnFails(i)
    \/ SpawnRuns(i)
    \/ StartGrace(i)
    \/ \E now \in Times : StartSave(i, now)
    \/ StopCheck(i)
    \/ StopTerm(i)
    \/ StopPoll(i)
    \/ StopKill(i)
    \/ StopClear(i)
    \/ Status(i)
    \/ Logs(i)

Env ==
    \/ \E p \in Pids : ChildExits(p)
    \/ \E p \in Pids : ChildWrites(p)

Next == Host("a") \/ Env

Spec == Init /\ [][Next]_vars

(* The same, with children that may leave the reach of the host's signals *)

NextPerm == Next \/ \E p \in Pids : ChangeCreds(p)

SpecPerm == Init /\ [][NextPerm]_vars

(* The same, begun with a state file that something other than write_state
   has left corrupt *)

InitCorrupt ==
    /\ proc = [p \in Pids |-> NoProc]
    /\ stateFile \in {[exists |-> TRUE, text |-> text] : text \in CorruptTexts}
    /\ logFile = <<>>
    /\ makeLog = NoMakeLog
    /\ inv = [i \in Hosts |-> Fresh]
    /\ last = NoLast

SpecCorrupt == InitCorrupt /\ [][Next]_vars

(* The same, with a file system that may refuse the host's writes *)

NextFault ==
    \/ Next
    \/ StartLogFails("a")
    \/ StartSaveFails("a")
    \/ StopClearFails("a")

SpecFault == Init /\ [][NextFault]_vars

(* The native host: start and stop as above, and the status that also asks
   the backend's health URL *)

\* the steps of a start or stop that has begun
Continue(i) ==
    \/ StartLog(i)
    \/ SpawnFails(i)
    \/ SpawnRuns(i)
    \/ StartGrace(i)
    \/ \E now \in Times : StartSave(i, now)
    \/ StopTerm(i)
    \/ StopPoll(i)
    \/ StopKill(i)
    \/ StopClear(i)

StartStop(i) ==
    \/ \E rq \in Requests : StartCheck(i, rq[1], rq[2])
    \/ StopCheck(i)
    \/ Continue(i)

NextHealth ==
    \/ StartStop("a")
    \/ \E u \in Urls : \E reply \in RepliesTo(u) : StatusHealth("a", u, reply)
    \/ Env

SpecHealth == Init /\ [][NextHealth]_vars

(* The native host with the checks main makes before it starts anything *)

NextConfig ==
    \/ \E action \in Actions : ConfigInvalid("a", action)
    \/ \E m \in ModeInputs : StartMode("a", m)
    \/ StartLog("a") \/ SpawnFails("a") \/ SpawnRuns("a") \/ StartGrace("a")
    \/ (\E now \in Times : StartSave("a", now))
    \/ Env

SpecConfig == Init /\ [][NextConfig]_vars

(* The make runner alone, beside a backend that may be running and recorded *)

InitMake ==
    /\ \E running \in BOOLEAN :
          /\ proc = [p \in Pids |-> IF running /\ p = 1
                                    THEN [NoProc EXCEPT !.st = "run"] ELSE NoProc]
          /\ stateFile = IF running THEN write_state(Rec(1, "dev-chat", NoneStr, 1))
                         ELSE NoFile
    /\ logFile = <<>>
    /\ makeLog = NoMakeLog
    /\ inv = [i \in Hosts |-> Fresh]
    /\ last = NoLast

NextMake == Make("a")

SpecMake == InitMake /\ [][NextMake]_vars

(* The five operations and both logs: one start request, one clock reading,
   one allowed and one other make target *)

NextLog ==
    \/ StartCheck("a", "c1", "")
    \/ StartLog("a") \/ SpawnFails("a") \/ SpawnRuns("a") \/ StartGrace("a")
    \/ StartSave("a", 1)
    \/ StopCheck("a")
    \/ StopTerm("a") \/ StopPoll("a") \/ StopKill("a") \/ StopClear("a")
    \/ Status("a")
    \/ Logs("a")
    \/ (\E target \in {"build-playground", "clean"} : MakeBegin("a", target, TRUE))
    \/ MakeNpmMissing("a") \/ MakeNpmFound("a") \/ MakeRaises("a")
    \/ MakeSpawns("a") \/ MakeWrites("a")
    \/ (\E returncode \in ExitCodes : MakeExits("a", returncode))
    \/ Env

SpecLog == Init /\ [][NextLog]_vars

(* One target started and stopped, with children that fork descendants into
   their group and change their credentials, and with pids that the OS gives
   to other processes once they are free *)

OneHost(i) ==
    \/ StartCheck(i, "c1", "")
    \/ StartLog(i) \/ SpawnFails(i) \/ SpawnRuns(i) \/ StartGrace(i)
    \/ StartSave(i, 1)
    \/ StopCheck(i)
    \/ StopTerm(i) \/ StopPoll(i) \/ StopKill(i) \/ StopClear(i)

NextGroup ==
    \/ OneHost("a")
    \/ \E p \in Pids : ChildExits(p)
    \/ \E p \in Pids, deaf \in BOOLEAN : Forks(p, deaf)
    \/ \E p \in Pids : KidExits(p)
    \/ \E p \in Pids, leader \in BOOLEAN : ForeignSpawns(p, leader, TRUE)

SpecGroup == Init /\ [][NextGroup]_vars

(* One target started and stopped by a host that, once it has read a request,
   keeps running until it has answered; a child exits when it likes, or never *)

NextLive == OneHost("a") \/ \E p \in Pids : ChildExits(p)

SpecLive == Init /\ [][NextLive]_vars /\ WF_vars(Continue("a"))

(* Two hosts serve start requests for one target at the same time: each is
   its own process, and nothing orders their reads and writes of the record *)

Starter(i) ==
    \/ StartCheck(i, "c1", "")
    \/ StartLog(i) \/ SpawnFails(i) \/ SpawnRuns(i) \/ StartGrace(i)
    \/ StartSave(i, 1)

NextTwo == Starter("a") \/ Starter("b") \/ \E p \in Pids : ChildExits(p)

SpecTwo == Init /\ [][NextTwo]_vars

(* Two hosts at once: "a" serves starts and stops, "b" serves status requests
   meanwhile; the children print nothing *)

Writer(i) ==
    \/ \E rq \in Requests : StartCheck(i, rq[1], rq[2])
    \/ StartLog(i)
    \/ SpawnFails(i)
    \/ SpawnRuns(i)
    \/ StartGrace(i)
    \/ StartTruncate(i)
    \/ \E now \in Times : StartWrite(i, now)
    \/ StopCheck(i)
    \/ StopTerm(i)
    \/ StopPoll(i)
    \/ StopKill(i)
    \/ StopTruncate(i)
    \/ StopWrite(i)

NextRace == Writer("a") \/ Status("b") \/ \E p \in Pids : ChildExits(p)

SpecRace == Init /\ [][NextRace]_vars

(* The state store alone: a record is written over any earlier file, then read *)

InitStore ==
    /\ proc = [p \in Pids |-> NoProc]
    /\ stateFile \in {NoFile} \cup {write_state(r) : r \in Records}
    /\ logFile = <<>>
    /\ makeLog = NoMakeLog
    /\ \E r \in Records :
          inv = [i \in Hosts |-> IF i = "a" THEN [Fresh EXCEPT !.op = "store", !.state = r]
                                 ELSE Fresh]
    /\ last = NoLast

NextStore == WriteState("a") \/ ReadState("a")

SpecStore == InitStore /\ [][NextStore]_vars

-----------------------------------------------------------------------------
(* Properties *)

\* a step of host "a" that begins a start
BeginsStart == CanBegin("a") /\ inv'["a"].op = "start" /\ inv'["a"] # inv["a"]

\* children that run and that no stop has signalled to die
Running(pt) == {q \in Pids : pt[q].st = "run" /\ ~pt[q].dying}

\* t is the last max_lines lines of lines (all of them when there are fewer)
IsTail(t, lines, max_lines) ==
    /\ Len(t) = (IF Len(lines) <= max_lines THEN Len(lines) ELSE max_lines)
    /\ \A k \in 1..Len(t) : t[k] = lines[Len(lines) - Len(t) + k]

\* C1 - Idempotent start: a start that finds the recorded pid answering the
\* zero-signal probe returns ok, "running" and that pid at once, and changes
\* neither the process table nor the files; so a start following a start that
\* returned pid p, while p still runs, returns p again and one child runs.
C1_IdempotentStart ==
    /\ [][\A p \in Pids :
            (BeginsStart /\ Get(read_state(stateFile), "pid") = p
                         /\ KillErrno(proc, p) = "ok")
            => /\ inv'["a"].pc = "done"
               /\ inv'["a"].resp = [ok |-> TRUE, status |-> "running", pid |-> p]
               /\ proc' = proc /\ stateFile' = stateFile /\ logFile' = logFile]_vars
    /\ [][(BeginsStart /\ last.op = "start" /\ last.resp.ok
                       /\ proc[last.resp.pid].st = "run")
            => /\ inv'["a"].pc = "done"
               /\ inv'["a"].resp = [ok |-> TRUE, status |-> "running",
                                    pid |-> last.resp.pid]
               /\ proc' = proc
               /\ Running(proc') = {last.resp.pid}]_vars

C1_Witness ==
    /\ inv["a"].op = "start" /\ inv["a"].pc = "done" /\ inv["a"].probe = "ok"
    /\ inv["a"].resp.pid = inv["a"].pid
    /\ inv["a"].command # Get(read_state(stateFile), "command")
    /\ Running(proc) = {inv["a"].pid}

\* C2 - Idempotent stop: a stop that finds no recorded pid, or a recorded pid
\* that does not exist, makes no kill/killpg call, changes neither a process
\* nor the log, answers ok with "stopped", and leaves the record empty.
C2_IdempotentStop ==
    /\ [](inv["a"].op = "stop" /\ inv["a"].probe \in {"none", "ESRCH"}
            => /\ inv["a"].sigs = <<>>
               /\ inv["a"].pc \in {"clear", "done"}
               /\ inv["a"].pc = "done"
                    => /\ inv["a"].resp = [ok |-> TRUE, status |-> "stopped"]
                       /\ read_state(stateFile) = EmptyState)
    /\ [][(inv'["a"].op = "stop" /\ inv'["a"].probe \in {"none", "ESRCH"}
                                 /\ inv'["a"] # inv["a"])
            => /\ proc' = proc /\ logFile' = logFile
               /\ stateFile' = stateFile \/ read_state(stateFile') = EmptyState]_vars

C2_Witness ==
    /\ inv["a"].op = "stop" /\ inv["a"].pc = "done" /\ inv["a"].probe = "ESRCH"
    /\ last.op = "stop" /\ inv["a"].pre.exists
    /\ Get(read_state(inv["a"].pre), "pid") # None

\* C3 - Lifecycle: a start whose child is still running when it returns
\* answers ok, "running" and the child's pid; a status that follows it while
\* the child runs reports "running" with that pid; once a stop has returned,
\* every status reports "stopped" with pid None until a start returns.
C3_Lifecycle ==
    /\ (inv["a"].op = "start" /\ inv["a"].pc = "done" /\ inv["a"].child # None
          /\ proc[inv["a"].child].st = "run")
        => inv["a"].resp = [ok |-> TRUE, status |-> "running", pid |-> inv["a"].child]
    /\ (inv["a"].op = "status" /\ inv["a"].pc = "done" /\ last.op = "start"
          /\ last.child # None /\ proc[last.child].st = "run")
        => /\ inv["a"].resp.status = "running"
           /\ inv["a"].resp.pid = last.child
    /\ (inv["a"].op = "status" /\ inv["a"].pc = "done" /\ last.op = "stop")
        => /\ inv["a"].resp.status = "stopped"
           /\ inv["a"].resp.pid = None

C3_Witness ==
    /\ inv["a"].op = "status" /\ inv["a"].pc = "done"
    /\ last.op = "stop" /\ last.path = "signalled"
    /\ \E p \in Pids : proc[p].st = "run"
    /\ inv["a"].resp.status = "stopped"

\* C4 - Immediate exit: when the child has exited by the time the grace
\* period ends, start returns ok=false with the tail of the log file as
\* logTail, the state file is what it was when start was called, and a
\* status that follows reports "stopped".
C4_ImmediateExit ==
    /\ [][(inv["a"].pc = "grace" /\ proc[inv["a"].child].st = "none"
                                 /\ inv'["a"] # inv["a"])
            => /\ inv'["a"].pc = "done"
               /\ inv'["a"].resp.ok = FALSE
               /\ "logTail" \in DOMAIN inv'["a"].resp
               /\ IsTail(inv'["a"].resp.logTail, logFile, 30)
               /\ inv'["a"].resp.logTail # <<>>
               /\ stateFile' = inv["a"].pre]_vars
    /\ []((inv["a"].op = "status" /\ inv["a"].pc = "done" /\ last.op = "start"
             /\ last.child # None /\ ~last.resp.ok)
            => inv["a"].resp.status = "stopped")

C4_Witness ==
    /\ inv["a"].op = "start" /\ inv["a"].pc = "done" /\ inv["a"].path = "exit"
    /\ Get(read_state(inv["a"].pre), "pid") # None
    /\ stateFile = inv["a"].pre
    /\ \E k \in 1..Len(inv["a"].resp.logTail) :
          inv["a"].resp.logTail[k] = <<"out", inv["a"].child>>

\* C5 - Spawn failure: when Popen raises, start returns a failure with an
\* error text and the state file is what it was when start was called.
C5_SpawnFailure ==
    (inv["a"].op = "start" /\ inv["a"].pc = "done" /\ inv["a"].path = "spawnfail")
    => /\ inv["a"].resp.ok = FALSE
       /\ "error" \in DOMAIN inv["a"].resp
       /\ stateFile = inv["a"].pre

C5_Witness ==
    /\ inv["a"].op = "start" /\ inv["a"].pc = "done" /\ inv["a"].path = "spawnfail"
    /\ Get(read_state(stateFile), "pid") # None

\* C6 - Liveness probe classification: is_pid_alive answers False only when
\* the zero-signal probe fails with "no such process"; so a start that finds
\* the recorded pid existing but not signalable returns it as running, and a
\* stop that finds it so does not treat it as dead.
C6_ProbeClassification ==
    /\ \A p \in Pids : ~is_pid_alive(proc, p) => KillErrno(proc, p) = "ESRCH"
    /\ (inv["a"].op = "start" /\ inv["a"].probe = "EPERM") => inv["a"].path = "already"
    /\ (inv["a"].op = "stop" /\ inv["a"].probe = "EPERM") => inv["a"].path = "signalled"

\* the calls of one stop
Sigs == inv["a"].sigs
Calls(call, sig) == {k \in 1..Len(Sigs) : Sigs[k][1] = call /\ Sigs[k][2] = sig}
Sent(sig) == {k \in 1..Len(Sigs) : Sigs[k][2] = sig}
Delivered(sig) == {k \in Sent(sig) : Sigs[k][3] = "ok"}

StopReturned == inv["a"].op = "stop" /\ inv["a"].pc = "done"

\* C7 - State cleared on every attempted stop: when stop found the recorded
\* pid answering the probe and ran the signal sequence, the record is empty
\* when stop returns, whatever the sequence reported.
C7_ClearedAfterStop ==
    (StopReturned /\ inv["a"].probe = "ok")
    => /\ Sigs # <<>>
       /\ stateFile.exists
       /\ read_state(stateFile) = EmptyState

C7_Witness ==
    /\ StopReturned /\ inv["a"].probe = "ok"
    /\ inv["a"].resp.ok = FALSE
    /\ Get(read_state(inv["a"].pre), "pid") = inv["a"].pid

\* both attempts to deliver SIGTERM failed
TermUndelivered == Sent("SIGTERM") # {} /\ Delivered("SIGTERM") = {}

\* C8 (as claimed) - Termination failure keeps state: when SIGTERM can be
\* delivered neither to the group nor to the pid, stop reports an error and
\* the record still holds the pid it held before.
C8_TerminationKeepsState ==
    (StopReturned /\ TermUndelivered)
    => /\ inv["a"].resp.ok = FALSE
       /\ inv["a"].resp.status = "error"
       /\ Get(read_state(stateFile), "pid") = inv["a"].pid

\* C8 (amended) - when SIGTERM can be delivered neither to the group nor to
\* the pid, stop reports an error naming the pid and the record is cleared
\* all the same; no stop that returns ok=false leaves the record intact.
C8_TerminationClearsState ==
    /\ (StopReturned /\ TermUndelivered)
        => /\ inv["a"].resp = [ok |-> FALSE, status |-> "error", pid |-> inv["a"].pid]
           /\ Cardinality(Calls("killpg", "SIGTERM")) = 1
           /\ Cardinality(Calls("kill", "SIGTERM")) = 1
           /\ Sent("SIGKILL") = {}
           /\ read_state(stateFile) = EmptyState
    /\ (StopReturned /\ ~inv["a"].resp.ok) => read_state(stateFile) = EmptyState

C8_Witness ==
    /\ StopReturned /\ TermUndelivered
    /\ Get(read_state(inv["a"].pre), "pid") = inv["a"].pid
    /\ inv["a"].pid # None

\* C9 - Escalation order: SIGKILL is sent only after SIGTERM was delivered
\* and the polls found the pid alive until 3 s had passed; a poll that finds
\* the pid dead ends stop with success and without SIGKILL; one stop makes
\* at most one terminate phase and one kill phase.
C9_EscalationOrder ==
    inv["a"].op = "stop"
    => /\ Sent("SIGKILL") # {}
            => /\ \E j \in Delivered("SIGTERM") : \A k \in Sent("SIGKILL") : j < k
               /\ inv["a"].elapsed >= 30
               /\ inv["a"].polled = "alive"
       /\ inv["a"].polled = "dead"
            => /\ Sent("SIGKILL") = {}
               /\ inv["a"].pc \in {"clear", "done"}
               /\ inv["a"].pc = "done"
                    => /\ inv["a"].resp.ok
                       /\ inv["a"].resp.status = "stopped"
       /\ \A call \in {"killpg", "kill"}, sig \in {"SIGTERM", "SIGKILL"} :
               Cardinality(Calls(call, sig)) <= 1
       /\ \A k \in 1..Len(Sigs) :
               Sigs[k][1] = "kill" => k > 1 /\ Sigs[k - 1] = <<"killpg", Sigs[k][2], Sigs[k - 1][3]>>
                                            /\ Sigs[k - 1][3] # "ok"

C9_Witness ==
    /\ StopReturned
    /\ Delivered("SIGKILL") # {}
    /\ inv["a"].resp.ok

\* C10 - Stop timing: a stop that had to kill (the process lived through
\* every poll after SIGTERM) sent SIGKILL no earlier than 3 s after SIGTERM,
\* returns less than 4 s after it with ok and "stopped", and a status that
\* follows reports "stopped".
C10_StopTiming ==
    /\ (inv["a"].op = "stop" /\ Sent("SIGKILL") # {}) => inv["a"].elapsed >= 30
    /\ (StopReturned /\ Delivered("SIGKILL") # {})
        => /\ inv["a"].elapsed < 40
           /\ inv["a"].resp = [ok |-> TRUE, status |-> "stopped", pid |-> inv["a"].pid]
           /\ handle_status(stateFile, proc).status = "stopped"
    /\ (inv["a"].op = "status" /\ inv["a"].pc = "done" /\ last.op = "stop"
          /\ last.resp.ok)
        => inv["a"].resp.status = "stopped"

C10_Witness ==
    /\ StopReturned /\ Delivered("SIGKILL") # {}
    /\ proc[inv["a"].pid].st = "run"
    /\ proc[inv["a"].pid].ignTerm
    /\ proc[inv["a"].pid].dying
    /\ inv["a"].elapsed > 30

\* C11 - State store round trip: for every record R over pid, command, cwd,
\* startedAt (any subset of the fields, the empty record included) and every
\* earlier content of the file, write_state(R) followed by read_state returns
\* a record with R's fields and R's values.
C11_RoundTrip ==
    (inv["a"].op = "store" /\ inv["a"].pc = "done")
    => /\ DOMAIN inv["a"].state = DOMAIN inv["a"].wrote
       /\ \A k \in DOMAIN inv["a"].wrote : inv["a"].state[k] = inv["a"].wrote[k]
       /\ inv["a"].state = inv["a"].wrote

C11_Witness ==
    /\ inv["a"].op = "store" /\ inv["a"].pc = "done"
    /\ DOMAIN inv["a"].wrote = {"pid", "cwd"}
    /\ inv["a"].pre.exists
    /\ DOMAIN read_state(inv["a"].pre) = {"pid", "command", "cwd", "startedAt"}
    /\ read_state(inv["a"].pre).pid # inv["a"].wrote.pid

\* the invocation was handed a state file that holds no well-formed record
FoundCorrupt == inv["a"].pre.exists /\ ~WellFormed(inv["a"].pre.text)

\* C12 - Corrupt state equals absent state: whenever the state file holds
\* something that is no well-formed record, read_state returns the empty
\* record; no start, stop or status dies of it, and a status or stop that
\* found such a file answers what it answers when the file is absent.
C12_CorruptIsAbsent ==
    /\ (stateFile.exists /\ ~WellFormed(stateFile.text))
        => read_state(stateFile) = EmptyState
    /\ inv["a"].pc # "crashed"
    /\ (inv["a"].op = "status" /\ inv["a"].pc = "done" /\ FoundCorrupt)
        => inv["a"].resp = handle_status(NoFile, proc)
    /\ (inv["a"].op = "stop" /\ FoundCorrupt)
        => /\ inv["a"].pc = "done"
           /\ inv["a"].resp = [ok |-> TRUE, status |-> "stopped"]
    /\ (inv["a"].op = "start" /\ FoundCorrupt) => inv["a"].path # "already"

\* C13 - Atomic state write: a status that reads the state file while another
\* invocation writes it reads a complete record, the old or the new one; if
\* the file named a pid before the write of a successful start and names one
\* after it, a status served in between reads a pid.
C13_AtomicWrite ==
    /\ (inv["b"].op = "status" /\ inv["b"].pre.exists)
        => WellFormed(inv["b"].pre.text)
    /\ (inv["b"].op = "status" /\ inv["a"].op = "start" /\ inv["a"].pc = "write"
          /\ inv["b"].pre = stateFile
          /\ Get(read_state(inv["a"].pre), "pid") # None)
        => inv["b"].pid # None

\* a step of host "a" that serves a status or a logs request
ServesRead == inv'["a"].op \in {"status", "logs"} /\ inv'["a"] # inv["a"]

\* C14 - Read-only operations: a status or logs request changes neither the
\* state file nor the log file nor any process (nothing is spawned, nothing is
\* signalled), also when status finds the recorded pid dead; the record after
\* a status is the record before it.
C14_ReadOnly ==
    /\ [][ServesRead => /\ stateFile' = stateFile
                         /\ logFile' = logFile
                         /\ proc' = proc
                         /\ inv'["a"].pc = "done"
                         /\ inv'["a"].sigs = <<>>
                         /\ inv'["a"].child = None]_vars
    /\ []((inv["a"].op \in {"status", "logs"}) => inv["a"].pre = stateFile)

C14_Witness ==
    /\ inv["a"].op = "status" /\ inv["a"].pc = "done" /\ inv["a"].probe = "ESRCH"
    /\ inv["a"].resp.status = "stopped"
    /\ Get(read_state(stateFile), "pid") = inv["a"].pid
    /\ \E p \in Pids : proc[p].st = "run"

\* a status of the host that also checks health has returned
HealthReturned ==
    inv["a"].op = "status" /\ inv["a"].pc = "done" /\ "healthy" \in DOMAIN inv["a"].resp

\* the URL supplied is absent, empty or white space
Blank(u) == \A k \in 1..Len(u) : u[k] = " "

\* C15 - Health is independent of OS liveness: when no non-blank base URL is
\* supplied no GET is made and healthy and healthUrl are null; when a GET is
\* made healthy is true iff it returned a status in 200..299 and false for
\* any other status and for any failure; status and pid are what the record
\* and the probe of its pid give, whatever the health outcome.
C15_HealthIndependent ==
    HealthReturned
    => /\ Blank(inv["a"].url)
            => /\ inv["a"].resp.healthy = NoneStr
               /\ inv["a"].resp.healthUrl = NoUrl
               /\ inv["a"].got = NoReply
       /\ inv["a"].got = NoReply
            => inv["a"].resp.healthy = NoneStr /\ inv["a"].resp.healthUrl = NoUrl
       /\ inv["a"].got # NoReply
            => /\ inv["a"].resp.healthy \in {"True", "False"}
               /\ inv["a"].resp.healthy = "True"
                    <=> /\ "status" \in DOMAIN inv["a"].got
                        /\ inv["a"].got.status \in 200..299
               /\ inv["a"].resp.healthUrl # NoUrl
       /\ inv["a"].resp.ok
       /\ inv["a"].resp.status = (IF inv["a"].probe = "ok" THEN "running" ELSE "stopped")
       /\ inv["a"].resp.pid = (IF inv["a"].probe = "ok" THEN inv["a"].pid ELSE None)

C15_Witness ==
    /\ HealthReturned
    /\ inv["a"].got = [status |-> 503]
    /\ inv["a"].resp.healthy = "False"
    /\ inv["a"].resp.status = "running"
    /\ inv["a"].resp.pid = inv["a"].pid /\ inv["a"].pid # None

\* the host process of invocation "a" has ended
Ended == inv["a"].op # "none" /\ inv["a"].pc \in {"done", "crashed"}

\* C16 - Response envelope shape: every response holds a boolean ok, and
\* every response with ok = false holds an error text; a stop whose signal
\* sequence failed is no exception.
C16_Envelope ==
    inv["a"].pc = "done"
    => /\ "ok" \in DOMAIN inv["a"].resp
       /\ inv["a"].resp.ok \in BOOLEAN
       /\ ~inv["a"].resp.ok => "error" \in DOMAIN inv["a"].resp

\* C17 - No failure crashes the supervisor: whatever external call fails
\* while a request is handled, the invocation ends having written one
\* response envelope; no exception ends the host process.
C17_NoCrash ==
    Ended => /\ inv["a"].pc = "done"
             /\ inv["a"].resp # NoResp
             /\ "ok" \in DOMAIN inv["a"].resp

\* a step of host "a" that answers a request with a refusal of its
\* configuration or of its mode
Refuses == inv'["a"].path \in {"config", "mode"} /\ inv'["a"] # inv["a"]

\* C18 - Validation precedes any process action: a request whose repo root
\* cannot be resolved, or a start whose mode is not a recognised one, is
\* answered with an error in the first step the host makes for it, and that
\* step spawns nothing, signals nothing and writes neither the state record
\* nor a log; no start with an unrecognised mode gets any further.
C18_ValidationFirst ==
    /\ [][Refuses => /\ CanBegin("a")
                      /\ inv'["a"].pc = "done"
                      /\ inv'["a"].resp.ok = FALSE
                      /\ "error" \in DOMAIN inv'["a"].resp
                      /\ proc' = proc
                      /\ stateFile' = stateFile
                      /\ logFile' = logFile
                      /\ makeLog' = makeLog
                      /\ inv'["a"].sigs = <<>>
                      /\ inv'["a"].child = None]_vars
    /\ []((inv["a"].op = "start" /\ inv["a"].command \notin Modes)
            => /\ inv["a"].path = IF inv["a"].command = NoneStr THEN "config" ELSE "mode"
               /\ inv["a"].pc = "done")

C18_Witness ==
    /\ inv["a"].op = "start" /\ inv["a"].path = "mode" /\ inv["a"].command = "prod"
    /\ inv["a"].pre = stateFile
    /\ logFile # <<>>
    /\ \E p \in Pids : proc[p].st = "run" /\ Get(read_state(stateFile), "pid") = p

\* the make request of host "a" has been answered
MakeAnswered == inv["a"].op = "make" /\ inv["a"].pc = "done"

\* C19 - Make runner: a make request whose target is not one of the two
\* allowed targets is answered with an error, runs no command and writes no
\* log; an allowed target is answered only once the make command has ended,
\* and no step of a make request changes the state record, the backend log or
\* any process; a missing npm is answered with an error without make having
\* been run, and a response carries an exitCode exactly when make ran to its
\* end, so the two failures are told apart.
C19_MakeRunner ==
    /\ []((inv["a"].op = "make" /\ inv["a"].command \notin allowed_targets)
            => /\ inv["a"].pc = "done" /\ inv["a"].make = "none"
               /\ inv["a"].resp.ok = FALSE
               /\ "error" \in DOMAIN inv["a"].resp)
    /\ [](MakeAnswered
            => /\ inv["a"].make \in {"none", "exited"}
               /\ ("exitCode" \in DOMAIN inv["a"].resp) = (inv["a"].make = "exited"))
    /\ []((MakeAnswered /\ inv["a"].path = "npm-missing")
            => /\ inv["a"].make = "none"
               /\ inv["a"].resp.ok = FALSE
               /\ "error" \in DOMAIN inv["a"].resp
               /\ "exitCode" \notin DOMAIN inv["a"].resp)
    /\ [][inv'["a"].op = "make"
            => /\ stateFile' = stateFile /\ logFile' = logFile /\ proc' = proc
               /\ (inv'["a"].command \notin allowed_targets => makeLog' = makeLog)]_vars

C19_Witness ==
    /\ MakeAnswered /\ inv["a"].path = "exit"
    /\ inv["a"].resp.exitCode = 2 /\ inv["a"].resp.ok = FALSE
    /\ stateFile.exists /\ inv["a"].pre = stateFile
    /\ \E t \in allowed_targets : \E k \in DOMAIN makeLog[t] :
          makeLog[t][k] = <<"npm not found in PATH">>
    /\ <<"make-out">> = inv["a"].resp.logTail[Len(inv["a"].resp.logTail)]

IsPrefix(s, t) == Len(s) <= Len(t) /\ SubSeq(t, 1, Len(s)) = s

\* the lines h stand in the file from line j on
SectionAt(lines, j, h) ==
    /\ j + Len(h) - 1 <= Len(lines)
    /\ SubSeq(lines, j, j + Len(h) - 1) = h

\* a step in which a child of a start comes to run
Launches == \E p \in Pids : proc[p].st = "none" /\ proc'[p].st = "run"

\* a step in which the make command comes to run
MakeLaunches == inv["a"].make = "none" /\ inv'["a"].make = "running"

\* C20 - The logs are append-only: in every step of start, stop, status, logs
\* and make, and of the children, what the backend log and each make log held
\* is a prefix of what they hold afterwards; when a start launches its child,
\* the header of that start is already in the log, followed by nothing but
\* output of children launched earlier, and when make is launched its header
\* and the npm line are the end of its log; so every line a child or make
\* writes stands after a section header.
C20_AppendOnly ==
    /\ [][/\ IsPrefix(logFile, logFile')
          /\ \A t \in allowed_targets : IsPrefix(makeLog[t], makeLog'[t])]_vars
    /\ [][Launches =>
            /\ inv["a"].op = "start"
            /\ \E j \in 1..Len(logFile) :
                  /\ SectionAt(logFile, j, Header(inv["a"].command, inv["a"].cwd))
                  /\ \A k \in (j + 4)..Len(logFile) : logFile[k][1] = "out"]_vars
    /\ [][MakeLaunches =>
            LET target == inv["a"].command
                log == makeLog[target]
            IN SectionAt(log, Len(log) - 3, MakeHeader(target, "repo")
                                              \o << <<"Using npm at:">> >>)]_vars
    /\ [](\A k \in 1..Len(logFile) :
              logFile[k][1] = "out" => \E j \in 1..(k - 1) : logFile[j] = <<"--- start">>)
    /\ [](\A t \in allowed_targets : \A k \in 1..Len(makeLog[t]) :
              makeLog[t][k] = <<"make-out">>
                 => \E j \in 1..(k - 1) : makeLog[t][j] = <<"--- make", t>>)

C20_Witness ==
    /\ Len(logFile) = 9
    /\ SectionAt(logFile, 1, Header("c1", ""))
    /\ logFile[5][1] = "out"
    /\ SectionAt(logFile, 6, Header("c1", ""))
    /\ \E p \in Pids : proc[p].st = "run" /\ Get(read_state(stateFile), "pid") = p
    /\ inv["a"].op = "make" /\ inv["a"].pc = "npm"
    /\ SectionAt(makeLog["build-playground"], 1, MakeHeader("build-playground", "repo"))
    /\ SectionAt(makeLog["build-playground"], 5, MakeHeader("build-playground", "repo"))

\* the calls a step of stop has added to its record of calls
NewCalls == SubSeq(inv'["a"].sigs, Len(inv["a"].sigs) + 1, Len(inv'["a"].sigs))

\* a step of stop that is the signal phase for sig: the group of the recorded
\* pid is signalled, and only when that raised is the single pid signalled;
\* the phase has failed exactly when both calls raised
PhaseRight(sig) ==
    LET pid == inv["a"].pid
        g == GroupErrno(proc, pid)
        k == KillErrno(proc, pid)
    IN IF g = "ok"
       THEN /\ NewCalls = << <<"killpg", sig, "ok">> >>
            /\ proc' = DeliverGroup(proc, pid, sig)
            /\ inv'["a"].ok
       ELSE /\ NewCalls = << <<"killpg", sig, g>>, <<"kill", sig, k>> >>
            /\ proc' = IF k = "ok" THEN Deliver(proc, pid, sig) ELSE proc
            /\ inv'["a"].ok = (k = "ok")

\* C21 - Group first, single pid as fallback: the terminate phase and the
\* kill phase of stop each call killpg on the recorded pid first, which
\* signals every member of the child's group, and call kill on the single pid
\* only if killpg raised; the phase fails only if both raised, and no other
\* step of stop sends a signal.
C21_GroupFirst ==
    /\ [][(inv["a"].pc = "term" /\ inv'["a"].pc # "term") => PhaseRight("SIGTERM")]_vars
    /\ [][(inv["a"].pc = "poll" /\ inv'["a"].pc = "clear"
             /\ inv'["a"].polled = inv["a"].polled /\ DeadlinePassed(inv["a"].elapsed))
            => PhaseRight("SIGKILL")]_vars
    /\ [][(inv["a"].op = "stop" /\ inv'["a"].sigs = inv["a"].sigs /\ inv'["a"].op = "stop")
            => (proc' = proc \/ inv' = inv)]_vars

C21_Witness ==
    /\ StopReturned
    /\ \E k \in 1..Len(Sigs) : Sigs[k] = <<"kill", "SIGTERM", "ok">>
    /\ \E k \in 1..Len(Sigs) : Sigs[k] = <<"killpg", "SIGKILL", "ok">>

\* host "a" is serving a request of this kind and has not answered it
Serving(op) == inv["a"].op = op /\ inv["a"].pc \notin {"idle", "done", "crashed"}

\* C22 - Stop always terminates: whatever the child does, a stop that has
\* begun returns a result, its poll loop having slept no longer than the 3 s
\* of the deadline and one last sleep; a start that has begun returns as well,
\* after its one grace wait.
C22_StopTerminates ==
    /\ [](inv["a"].op = "stop"
            => inv["a"].elapsed < Deadline + PollInterval + MaxOversleep)
    /\ [][(inv["a"].pc = "poll" /\ inv'["a"].pc = "poll" /\ inv' # inv)
            => inv'["a"].elapsed >= inv["a"].elapsed + PollInterval]_vars
    /\ (Serving("stop") ~> (inv["a"].op = "stop" /\ inv["a"].pc = "done"))
    /\ (Serving("start") ~> (inv["a"].op = "start" /\ inv["a"].pc = "done"))

C22_Witness ==
    /\ StopReturned
    /\ inv["a"].polled = "alive" /\ inv["a"].elapsed >= Deadline
    /\ proc[inv["a"].pid].st = "run" /\ proc[inv["a"].pid].ignTerm

\* host "a" has answered a start with the pid it found recorded and alive
AlreadyRunning ==
    inv["a"].op = "start" /\ inv["a"].pc = "done" /\ inv["a"].path = "already"

\* C23 - A start that finds the recorded pid alive only reads: the step that
\* answers it changes neither the state file nor the log nor any process, it
\* launches nothing, and for as long as its answer stands the record is the
\* one found, so that status reports the recorded command and startedAt and
\* not those of the request, which may differ.
C23_AlreadyRunningReads ==
    /\ [][(AlreadyRunning' /\ inv' # inv)
            => /\ stateFile' = stateFile /\ logFile' = logFile /\ proc' = proc
               /\ makeLog' = makeLog]_vars
    /\ [](AlreadyRunning
            => /\ stateFile = inv["a"].pre
               /\ inv["a"].child = None
               /\ inv["a"].resp = [ok |-> TRUE, status |-> "running",
                                    pid |-> Get(read_state(inv["a"].pre), "pid")]
               /\ handle_status(stateFile, proc).command
                     = Get(read_state(inv["a"].pre), "command")
               /\ handle_status(stateFile, proc).startedAt
                     = Get(read_state(inv["a"].pre), "startedAt")
               /\ Get(read_state(stateFile), "cwd") = Get(read_state(inv["a"].pre), "cwd"))

C23_Witness ==
    /\ AlreadyRunning
    /\ inv["a"].command = "c2" /\ inv["a"].cwd = "/w"
    /\ handle_status(stateFile, proc).command = "c1"
    /\ handle_status(stateFile, proc).status = "running"
    /\ Get(read_state(stateFile), "cwd") = "~"

\* the children that run and have not been told to die by a signal they heed
Alive == {p \in Pids : proc[p].st = "run" /\ ~proc[p].foreign /\ ~proc[p].dying}

\* C24 - No orphan under sequential use: between invocations, every child
\* of a start that is alive is the pid of the state record, so at most one is
\* alive and status reports "running" whenever one is; also after a stop that
\* returned ok=false.
C24_NoOrphan ==
    CanBegin("a")
    => /\ \A p \in Alive : Get(read_state(stateFile), "pid") = p
       /\ Cardinality(Alive) <= 1
       /\ Alive # {} => handle_status(stateFile, proc).status = "running"

\* C25 - No orphan under concurrent invocations: once all overlapping
\* invocations have returned, every live child of their starts is the pid of
\* the state record, so at most one is alive.
C25_NoOrphanConcurrent ==
    (\A i \in Hosts : CanBegin(i))
    => /\ \A p \in Alive : Get(read_state(stateFile), "pid") = p
       /\ Cardinality(Alive) <= 1

\* a step of stop in which a kill or killpg call succeeded
Signals == \E k \in 1..Len(NewCalls) : NewCalls[k][3] = "ok"

\* C26 - Signals reach only the supervised process: a signal that stop sends
\* goes to the child that the start which wrote the record has launched, and
\* start answers "already running" for that child only, never for a process
\* to which the OS has given the pid of an exited child.
C26_OnlySupervised ==
    /\ [][(inv["a"].op = "stop" /\ inv'["a"].op = "stop" /\ Signals)
            => ~proc[inv["a"].pid].foreign]_vars
    /\ [][(AlreadyRunning' /\ inv' # inv) => ~proc[inv'["a"].pid].foreign]_vars

\* C27 - Stop reports failure only for a survivor: when stop returns
\* ok=false the recorded process is alive at that moment; a process that has
\* exited on its own, between the probe and the first signal or at the
\* deadline before the kill, makes stop return ok=true and "stopped".
C27_FailureMeansSurvivor ==
    [][(StopReturned' /\ inv' # inv /\ ~inv'["a"].resp.ok)
        => proc'[inv'["a"].pid].st = "run"]_vars

\* C28 - A successful stop leaves nothing running: when stop returns ok=true
\* after it has signalled the recorded pid, the child and the descendants in
\* its group are dead, or a signal they heed has been delivered to them, so
\* that they die without another invocation.
C28_NothingLeftRunning ==
    [][(StopReturned' /\ inv' # inv /\ inv'["a"].resp.ok /\ inv'["a"].path = "signalled")
        => /\ proc'[inv'["a"].pid].st = "none" \/ proc'[inv'["a"].pid].dying
           /\ proc'[inv'["a"].pid].kid \in {"none", "dying"}]_vars

====
